---- MODULE Spec2Model ----
(***************************************************************************)
(* State-machine model of src/hooks/useNetworkMonitor.ts: the hook that    *)
(* assembles GraphQL request records from the webRequest events            *)
(* (onBeforeRequest, onBeforeSendHeaders), the devtools network events     *)
(* (onRequestFinished) and the HAR log read at start-up.                   *)
(*                                                                         *)
(* Every asynchronous handler is cut at its suspension points (await,      *)
(* getContent callback); each piece between two suspension points is one   *)
(* atomic action, because the handlers run on one cooperative thread.      *)
(***************************************************************************)
EXTENDS Integers, Sequences, FiniteSets, TLC

\* ------------------------------------------------------------------ bounds
MaxRequests == 2      \* onBeforeRequest events delivered
MaxFinish == 2        \* onRequestFinished events delivered
MaxHar == 2           \* entries in the HAR log
MaxEvents == 4        \* events and calls in all (requests, headers, finished, HAR, clear)

\* ------------------------------------------------------------ input values
Undefined == "undefined"          \* JavaScript undefined, for a string value
UndefinedDetail == [undefined |-> TRUE]   \* an absent request / response field
UndefinedList == [defined |-> FALSE]      \* undefined, for a list value
FetchError == "<throws>"          \* getRequestBody rejects for this request
Urls == {"/graphql"}
Methods == {"POST"}
\* request bodies: a query, a document without an operation, text that is
\* not JSON, an empty body, and a body whose retrieval fails
AllBodies == {"{query}", "{fragment}", "not json", "", FetchError}
Bodies == {"{query}", "not json"} \* bodies of the live traffic
Times == {7}                      \* details.time of a finished request
Defined(list) == [defined |-> TRUE, value |-> list]

VARIABLES
    webRequests,     \* the state cell of useLatestState: latest committed list
    requestCount,    \* number of onBeforeRequest events delivered so far
    headersTasks,    \* requestId -> handleBeforeSendHeaders invocation
    finishTasks,     \* event number -> handleRequestFinished invocation
    har,             \* the start-up effect: getHAR + handleHAREntries
    clearCount,      \* number of calls of clearWebRequests so far
    lastOp           \* the handler piece that ran last

vars == <<webRequests, requestCount, headersTasks, finishTasks, har, clearCount,
          lastOp>>

\* --------------------------------------------------------- external helpers
\* helpers/networkHelpers.getRequestBody: the body text of a descriptor
getRequestBody(details) == details.body

\* helpers/graphqlHelpers.parseGraphqlBody: the list of operations of a body,
\* or undefined when the body is not a GraphQL envelope
parseGraphqlBody(body) ==
    CASE body = "{query}" -> Defined(<<"query">>)
      [] body = "{fragment}" -> Defined(<<"fragment">>)
      [] OTHER -> UndefinedList

\* helpers/graphqlHelpers.getFirstGraphqlOperation: the first operation
\* definition of the first request body, or undefined
getFirstGraphqlOperation(graphqlRequestBody) ==
    IF /\ Len(graphqlRequestBody.value) > 0
       /\ graphqlRequestBody.value[1] \in {"query", "mutation"}
    THEN graphqlRequestBody.value[1]
    ELSE Undefined

\* helpers/networkHelpers.isRequestComplete
isRequestComplete(webRequest) ==
    webRequest.request # UndefinedDetail /\ webRequest.response # UndefinedDetail

\* helpers/networkHelpers.matchWebAndNetworkRequest: same url, method, body
matchWebAndNetworkRequest(details, webRequest, headers) ==
    /\ webRequest.url = details.url
    /\ webRequest.method = details.method
    /\ webRequest.body = details.body

\* JavaScript truthiness of the value a call returned: a Promise is an object
\* and therefore truthy whatever it resolves to
Promise(value) == [type |-> "promise", value |-> value]
Truthy(x) == x.type = "promise" \/ x.value

\* ---------------------------------------------------------- pure functions
\* validateNetworkRequest, the value its promise resolves to
validateNetworkRequestResult(details) ==
    LET body == getRequestBody(details) IN
    IF body = FetchError THEN FALSE                              \* catch
    ELSE IF body = "" THEN FALSE                                 \* !body
    ELSE IF parseGraphqlBody(body) = UndefinedList THEN FALSE
    ELSE IF getFirstGraphqlOperation(parseGraphqlBody(body)) = Undefined THEN FALSE
    ELSE TRUE

\* validateNetworkRequest as its callers see it: an async function returns a
\* Promise
validateNetworkRequest(details) == Promise(validateNetworkRequestResult(details))

\* line 72; a descriptor without a time field has an undefined time
processNetworkRequestTime(details) ==
    IF "time" \notin DOMAIN details THEN 0                       \* !details.time
    ELSE IF details.time = -1 \/ details.time = 0 THEN 0
    ELSE details.time

\* processNetworkRequest: the fields a finished request contributes
processNetworkRequest(details, responseBody) ==
    [status |-> details.status,
     url |-> details.url,
     time |-> processNetworkRequestTime(details),
     method |-> details.method,
     response |-> [body |-> responseBody]]

\* { ...record, ...fields }
Spread(record, fields) ==
    [k \in DOMAIN record |-> IF k \in DOMAIN fields THEN fields[k] ELSE record[k]]

\* Array.prototype.map
Map(seq, F(_)) == [i \in 1..Len(seq) |-> F(seq[i])]

\* index of the first record with the id, 0 when there is none (Array.find)
RECURSIVE FindFrom(_, _, _)
FindFrom(seq, id, i) ==
    IF i > Len(seq) THEN 0
    ELSE IF seq[i].id = id THEN i
    ELSE FindFrom(seq, id, i + 1)
Find(seq, id) == FindFrom(seq, id, 1)

Ids(seq) == {seq[i].id : i \in 1..Len(seq)}

\* ---------------------------------------------------------------- Init
Other == [op |-> "other", arg |-> 0]
NoHeadersTask == [pc |-> "none", webRequests |-> <<>>]

Init ==
    /\ webRequests = <<>>
    /\ requestCount = 0
    /\ headersTasks = [id \in 1..MaxRequests |-> NoHeadersTask]
    /\ finishTasks = <<>>
    /\ har = [pc |-> "getHAR"]
    /\ clearCount = 0
    /\ lastOp = Other

\* the events delivered so far: the guards stop delivering at MaxEvents
Delivered ==
    requestCount
    + Cardinality({id \in 1..MaxRequests : headersTasks[id].pc # "none"})
    + Len(finishTasks)
    + (IF har.pc = "getHAR" THEN 0 ELSE 1)
    + clearCount

\* ------------------------------------------------------ handleBeforeRequest
newWebRequest(details) ==
    [id |-> details.requestId,
     status |-> -1,
     url |-> details.url,
     time |-> 0,
     method |-> details.method,
     native |-> [webRequest |-> details],
     request |-> UndefinedDetail,
     response |-> UndefinedDetail]

\* variant: the new record is put in front of the list
handleBeforeRequestUpdaterPrepend(prev, details) == <<newWebRequest(details)>> \o prev

\* lines 123-136
handleBeforeRequestUpdater(prev, details) == Append(prev, newWebRequest(details))

handleBeforeRequest ==
    /\ requestCount < MaxRequests
    /\ Delivered < MaxEvents
    /\ \E url \in Urls, method \in Methods, body \in Bodies :
        LET details == [requestId |-> requestCount + 1, url |-> url,
                        method |-> method, body |-> body] IN
        /\ webRequests' = handleBeforeRequestUpdater(webRequests, details)
        /\ requestCount' = requestCount + 1
        /\ lastOp' = Other
    /\ UNCHANGED <<headersTasks, finishTasks, har, clearCount>>

\* -------------------------------------------------- handleBeforeSendHeaders
RequestHeaders == "headers"

\* variant: a record that already has a response is not tested for
handleBeforeSendHeadersReturnsAbsentOnly(snapshot, id) == Find(snapshot, id) = 0

\* lines 145-155: the handler returns before the body fetch when no record
\* has the id or the record has a response
handleBeforeSendHeadersReturns(snapshot, id) ==
    \/ Find(snapshot, id) = 0
    \/ snapshot[Find(snapshot, id)].response # UndefinedDetail

\* lines 143-155: the synchronous part, up to the await of getRequestBody
handleBeforeSendHeaders ==
    \E id \in 1..requestCount :
        /\ headersTasks[id].pc = "none"
        /\ Delivered < MaxEvents
        /\ LET snapshot == webRequests          \* getLatestWebRequests()
           IN IF handleBeforeSendHeadersReturns(snapshot, id)
              THEN /\ headersTasks' = [headersTasks EXCEPT ![id] =
                                          [pc |-> "returned", webRequests |-> <<>>]]
                   /\ lastOp' = Other
              ELSE /\ headersTasks' = [headersTasks EXCEPT ![id] =
                                          [pc |-> "getRequestBody", webRequests |-> snapshot]]
                   /\ lastOp' = Other
        /\ UNCHANGED <<webRequests, requestCount, finishTasks, har, clearCount>>

\* variant: only an empty body is rejected
handleBeforeSendHeadersRequestUnchecked(body) ==
    IF body = FetchError THEN UndefinedDetail
    ELSE IF body = "" THEN UndefinedDetail
    ELSE [primaryOperation |->
              IF parseGraphqlBody(body) = UndefinedList THEN Undefined
              ELSE getFirstGraphqlOperation(parseGraphqlBody(body)),
          body |-> IF parseGraphqlBody(body) = UndefinedList THEN <<>>
                   ELSE parseGraphqlBody(body).value,
          headers |-> RequestHeaders]

\* lines 161-193: the request detail built from the fetched body, undefined
\* where the handler returns (or the fetch rejects) before building it
handleBeforeSendHeadersRequest(body) ==
    IF body = FetchError THEN UndefinedDetail
    ELSE IF body = "" THEN UndefinedDetail
    ELSE IF parseGraphqlBody(body) = UndefinedList THEN UndefinedDetail
    ELSE IF getFirstGraphqlOperation(parseGraphqlBody(body)) = Undefined
         THEN UndefinedDetail
    ELSE [primaryOperation |-> getFirstGraphqlOperation(parseGraphqlBody(body)),
          body |-> parseGraphqlBody(body).value,
          headers |-> RequestHeaders]

\* variant: the update is computed from the list the handler read before it
\* suspended
handleBeforeSendHeadersUpdaterStale(prevWebRequests, webRequest, request) ==
    Map(headersTasks[webRequest.id].webRequests,
        LAMBDA prevWebRequest :
            IF prevWebRequest.id = webRequest.id
            THEN Spread(prevWebRequest, [request |-> request])
            ELSE prevWebRequest)

\* variant: the record the handler found before it suspended is spread, not
\* the record of the latest list
handleBeforeSendHeadersUpdaterCaptured(prevWebRequests, webRequest, request) ==
    Map(prevWebRequests,
        LAMBDA prevWebRequest :
            IF prevWebRequest.id = webRequest.id
            THEN Spread(webRequest, [request |-> request])
            ELSE prevWebRequest)

\* variant: the record is added when the latest list does not have it
handleBeforeSendHeadersUpdaterUpsert(prevWebRequests, webRequest, request) ==
    IF Find(prevWebRequests, webRequest.id) = 0
    THEN Append(prevWebRequests, Spread(webRequest, [request |-> request]))
    ELSE Map(prevWebRequests,
             LAMBDA prevWebRequest :
                 IF prevWebRequest.id = webRequest.id
                 THEN Spread(prevWebRequest, [request |-> request])
                 ELSE prevWebRequest)

\* lines 195-206
handleBeforeSendHeadersUpdater(prevWebRequests, webRequest, request) ==
    Map(prevWebRequests,
        LAMBDA prevWebRequest :
            IF prevWebRequest.id = webRequest.id
            THEN Spread(prevWebRequest, [request |-> request])
            ELSE prevWebRequest)

\* lines 161-206: getRequestBody has settled
handleBeforeSendHeadersResume ==
    \E id \in 1..requestCount :
        /\ headersTasks[id].pc = "getRequestBody"
        /\ LET snapshot == headersTasks[id].webRequests
               webRequest == snapshot[Find(snapshot, id)]
               body == getRequestBody(webRequest.native.webRequest)
               request == handleBeforeSendHeadersRequest(body)
           IN IF request # UndefinedDetail
              THEN /\ webRequests' = handleBeforeSendHeadersUpdater(
                                         webRequests, webRequest, request)
                   /\ headersTasks' = [headersTasks EXCEPT ![id].pc = "committed"]
                   /\ lastOp' = [op |-> "headersCommit", arg |-> id]
              ELSE /\ webRequests' = webRequests
                   /\ headersTasks' = [headersTasks EXCEPT
                          ![id] = [pc |-> "rejected", webRequests |-> <<>>]]
                   /\ lastOp' = Other
        /\ UNCHANGED <<requestCount, finishTasks, har, clearCount>>

\* ---------------------------------------------------------- clearWebRequests
OptionValues == {"true", "false", Undefined}
NoOpts == [clearPending |-> Undefined, clearAll |-> Undefined]
Default(value, default) == IF value = Undefined THEN default ELSE value = "true"

\* variant: clearPending is tested before clearAll
clearWebRequestsResultPendingFirst(prev, opts) ==
    LET clearPending == Default(opts.clearPending, TRUE)
        clearAll == Default(opts.clearAll, TRUE)
    IN IF clearPending
       THEN SelectSeq(prev, LAMBDA webRequest : webRequest.response # UndefinedDetail)
       ELSE IF clearAll THEN <<>> ELSE prev

\* variant: the filter keeps the records that are still pending
clearWebRequestsResultInverted(prev, opts) ==
    LET clearPending == Default(opts.clearPending, TRUE)
        clearAll == Default(opts.clearAll, TRUE)
    IN IF clearAll THEN <<>>
       ELSE IF clearPending
            THEN SelectSeq(prev, LAMBDA webRequest : webRequest.response = UndefinedDetail)
            ELSE prev

\* lines 300-313: the list clearWebRequests leaves
clearWebRequestsResult(prev, opts) ==
    LET clearPending == Default(opts.clearPending, TRUE)
        clearAll == Default(opts.clearAll, TRUE)
    IN IF clearAll THEN <<>>
       ELSE IF clearPending
            THEN SelectSeq(prev, LAMBDA webRequest : webRequest.response # UndefinedDetail)
            ELSE prev

clearWebRequests ==
    /\ Delivered < MaxEvents
    /\ clearCount' = clearCount + 1
    /\ \E clearPending \in OptionValues, clearAll \in OptionValues :
        LET opts == [clearPending |-> clearPending, clearAll |-> clearAll] IN
        /\ webRequests' = clearWebRequestsResult(webRequests, opts)
        /\ lastOp' = [op |-> "clear", arg |-> Len(webRequests) - Len(webRequests'),
                      opts |-> opts]
    /\ UNCHANGED <<requestCount, headersTasks, finishTasks, har>>

\* ---------------------------------------------------- findMatchingWebRequest
\* lines 97-110: the eligible records are those without a response; the
\* predicate is evaluated on each, Promise.all keeps their order, and the
\* first non-null entry is the match (undefined when there is none)
\* variant: no filter on the response
findMatchingWebRequestEligibleAll(snapshot) == snapshot

\* variant: only the records that have a request detail are eligible
findMatchingWebRequestEligibleDecoded(snapshot) ==
    SelectSeq(snapshot, LAMBDA webRequest :
                  /\ webRequest.response = UndefinedDetail
                  /\ webRequest.request # UndefinedDetail)

\* lines 99-100
findMatchingWebRequestEligible(snapshot) ==
    SelectSeq(snapshot, LAMBDA webRequest : webRequest.response = UndefinedDetail)

findMatchingWebRequestMatches(snapshot, details) ==
    SelectSeq(findMatchingWebRequestEligible(snapshot),
              LAMBDA webRequest :
                  matchWebAndNetworkRequest(
                      details, webRequest.native.webRequest,
                      IF webRequest.request = UndefinedDetail
                      THEN "none" ELSE webRequest.request.headers))

\* variant: the first eligible record, whether or not it matches
findMatchingWebRequestFirstEligible(snapshot, details) ==
    LET eligible == findMatchingWebRequestEligible(snapshot) IN
    IF Len(eligible) = 0 THEN 0 ELSE eligible[1].id

\* variant: the last matching record
findMatchingWebRequestLast(snapshot, details) ==
    LET match == findMatchingWebRequestMatches(snapshot, details) IN
    IF Len(match) = 0 THEN 0 ELSE match[Len(match)].id

\* the id of the matching record, 0 for undefined
findMatchingWebRequest(snapshot, details) ==
    LET match == findMatchingWebRequestMatches(snapshot, details) IN
    IF Len(match) = 0 THEN 0 ELSE match[1].id

\* ---------------------------------------------------- handleRequestFinished
FinishedStatus == 200

\* lines 212-217: the gate, then the registration of the getContent callback
handleRequestFinished ==
    /\ Len(finishTasks) < MaxFinish
    /\ Delivered < MaxEvents
    /\ \E url \in Urls, method \in Methods, body \in Bodies, time \in Times :
        LET ev == Len(finishTasks) + 1
            details == [url |-> url, method |-> method, body |-> body,
                        time |-> time, status |-> FinishedStatus, content |-> ev]
        IN /\ finishTasks' = Append(finishTasks,
                  [pc |-> IF ~Truthy(validateNetworkRequest(details))
                          THEN "screened" ELSE "getContent",
                   details |-> details, webRequests |-> <<>>,
                   after |-> {}, matched |-> 0])
           /\ lastOp' = Other
    /\ UNCHANGED <<webRequests, requestCount, headersTasks, har, clearCount>>

\* line 218-219: the getContent callback starts; it reads the latest list and
\* suspends on findMatchingWebRequest
handleRequestFinishedContent ==
    \E ev \in 1..Len(finishTasks) :
        /\ finishTasks[ev].pc = "getContent"
        /\ finishTasks' = [finishTasks EXCEPT
               ![ev].pc = "matching",
               ![ev].webRequests = webRequests,       \* getLatestWebRequests()
               ![ev].after = {e \in 1..Len(finishTasks) :
                                 finishTasks[e].pc = "committed"}]
        /\ lastOp' = Other
        /\ UNCHANGED <<webRequests, requestCount, headersTasks, har, clearCount>>

\* variant: the matched record is rebuilt without spreading the previous one
handleRequestFinishedUpdaterNoSpread(prevWebRequests, matchingId, details, responseBody) ==
    Map(prevWebRequests,
        LAMBDA prevWebRequest :
            IF prevWebRequest.id = matchingId
            THEN Spread([id |-> prevWebRequest.id, status |-> -1, url |-> Undefined,
                         time |-> 0, method |-> Undefined,
                         native |-> prevWebRequest.native,
                         request |-> UndefinedDetail, response |-> UndefinedDetail],
                        processNetworkRequest(details, responseBody))
            ELSE prevWebRequest)

\* variant: every record of the list is merged with the finished request
handleRequestFinishedUpdaterAll(prevWebRequests, matchingId, details, responseBody) ==
    Map(prevWebRequests,
        LAMBDA prevWebRequest :
            Spread(Spread(prevWebRequest, [id |-> prevWebRequest.id]),
                   processNetworkRequest(details, responseBody)))

\* lines 227-239
handleRequestFinishedUpdater(prevWebRequests, matchingId, details, responseBody) ==
    Map(prevWebRequests,
        LAMBDA prevWebRequest :
            IF prevWebRequest.id = matchingId
            THEN Spread(Spread(prevWebRequest, [id |-> prevWebRequest.id]),
                        processNetworkRequest(details, responseBody))
            ELSE prevWebRequest)

\* lines 219-239: findMatchingWebRequest has settled
handleRequestFinishedCommit ==
    \E ev \in 1..Len(finishTasks) :
        /\ finishTasks[ev].pc = "matching"
        /\ LET details == finishTasks[ev].details
               matchingId == findMatchingWebRequest(finishTasks[ev].webRequests, details)
           IN IF matchingId = 0
              THEN /\ webRequests' = webRequests
                   /\ finishTasks' = [finishTasks EXCEPT ![ev].pc = "dropped",
                                                         ![ev].webRequests = <<>>]
                   /\ lastOp' = [op |-> "finishedDropped", arg |-> ev]
              ELSE /\ webRequests' = handleRequestFinishedUpdater(
                                         webRequests, matchingId, details, details.content)
                   /\ finishTasks' = [finishTasks EXCEPT ![ev].pc = "committed",
                                                         ![ev].webRequests = <<>>,
                                                         ![ev].matched = matchingId]
                   /\ lastOp' = [op |-> "finishedCommit", arg |-> ev]
        /\ UNCHANGED <<requestCount, headersTasks, har, clearCount>>

\* --------------------------------------------------------- handleHAREntries
\* {} as any: every property of the native webRequest is undefined
EmptyObject == [requestId |-> 0, url |-> Undefined, method |-> Undefined,
                body |-> Undefined]

\* the entries a HAR log is made of: GraphQL traffic, other traffic, and an
\* entry without a getContent function
HarEntryKinds ==
    {[hasGetContent |-> TRUE, body |-> "{query}"],
     [hasGetContent |-> TRUE, body |-> "{fragment}"],
     [hasGetContent |-> FALSE, body |-> "{query}"]}

HarEntry(kind, i) ==
    [hasGetContent |-> kind.hasGetContent, url |-> "/graphql", method |-> "POST",
     headers |-> RequestHeaders, body |-> kind.body, time |-> 7, status |-> FinishedStatus, content |-> 0 - i]

HarLogs ==
    UNION {[1..n -> HarEntryKinds] : n \in 0..MaxHar}

\* uuid() of the record made from the i-th valid entry
Uuid(i) == 0 - i

\* line 247-249
validEntries(entries) ==
    SelectSeq(entries, LAMBDA details :
        details.hasGetContent /\ Truthy(validateNetworkRequest(details)))

\* lines 320-322, 247-254: getHAR resolves, the valid entries are selected and
\* getContent is called on each
handleHAREntries ==
    /\ har.pc = "getHAR"
    /\ Delivered < MaxEvents
    /\ \E log \in HarLogs :
        LET entries == [i \in 1..Len(log) |-> HarEntry(log[i], i)]
            valid == validEntries(entries)
        IN har' = [pc |-> "Promise.all", log |-> entries, entries |-> valid,
                   entriesWithContent |->
                       [i \in 1..Len(valid) |-> [state |-> "getContent"]]]
    /\ lastOp' = Other
    /\ UNCHANGED <<webRequests, requestCount, headersTasks, finishTasks, clearCount>>

\* lines 255-287: the record the promise of the i-th valid entry is resolved
\* with, undefined where the callback returns without resolving it
handleHAREntriesRecord(details, responseBody, i) ==
    LET body == getRequestBody(details) IN
    IF body = FetchError THEN UndefinedDetail
    ELSE IF body = "" THEN UndefinedDetail
    ELSE IF parseGraphqlBody(body) = UndefinedList THEN UndefinedDetail
    ELSE IF getFirstGraphqlOperation(parseGraphqlBody(body)) = Undefined
         THEN UndefinedDetail
    ELSE Spread([id |-> Uuid(i),
                 status |-> 0, url |-> Undefined, time |-> 0, method |-> Undefined,
                 response |-> UndefinedDetail,
                 request |-> [primaryOperation |->
                                  getFirstGraphqlOperation(parseGraphqlBody(body)),
                              body |-> parseGraphqlBody(body).value,
                              headers |-> details.headers],
                 native |-> [webRequest |-> EmptyObject]],
                processNetworkRequest(details, responseBody))

\* lines 254-288: the getContent callback of one entry; the promise of the
\* entry is resolved only when the body decodes
handleHAREntriesContent ==
    /\ har.pc = "Promise.all"
    /\ \E i \in 1..Len(har.entries) :
        /\ har.entriesWithContent[i].state = "getContent"
        \* the callbacks share no state: they are taken in the order of the log
        /\ \A j \in 1..(i - 1) : har.entriesWithContent[j].state # "getContent"
        /\ LET details == har.entries[i]
               record == handleHAREntriesRecord(details, details.content, i)
           IN har' = [har EXCEPT !.entriesWithContent[i] =
                         IF record # UndefinedDetail
                         THEN [state |-> "resolved", value |-> record]
                         ELSE [state |-> "pending"]]
        /\ lastOp' = Other
    /\ UNCHANGED <<webRequests, requestCount, headersTasks, finishTasks, clearCount>>

\* variant: the historic records are appended to the list
handleHAREntriesSetMerge(prevWebRequests, entriesWithContent) ==
    prevWebRequests \o entriesWithContent

\* line 293: setWebRequests(entriesWithContent), the value form of the setter
handleHAREntriesSet(prevWebRequests, entriesWithContent) == entriesWithContent

\* lines 251, 293: Promise.all settles, the list is set
handleHAREntriesCommit ==
    /\ har.pc = "Promise.all"
    /\ \A i \in 1..Len(har.entries) : har.entriesWithContent[i].state = "resolved"
    /\ webRequests' = handleHAREntriesSet(webRequests,
           [i \in 1..Len(har.entries) |-> har.entriesWithContent[i].value])
    /\ har' = [pc |-> "done"]
    /\ lastOp' = [op |-> "harCommit", arg |-> Len(webRequests)]
    /\ UNCHANGED <<requestCount, headersTasks, finishTasks, clearCount>>

\* --------------------------------------------------------------- the view
\* variant: only the request portion is tested
completeWebRequestsRequestOnly ==
    SelectSeq(webRequests, LAMBDA webRequest : webRequest.request # UndefinedDetail)

\* line 345
completeWebRequests == SelectSeq(webRequests, isRequestComplete)

Next ==
    \/ handleBeforeRequest
    \/ handleBeforeSendHeaders
    \/ handleBeforeSendHeadersResume
    \/ handleRequestFinished
    \/ handleRequestFinishedContent
    \/ handleRequestFinishedCommit
    \/ handleHAREntries
    \/ handleHAREntriesContent
    \/ handleHAREntriesCommit
    \/ clearWebRequests

Spec == Init /\ [][Next]_vars

\* ------------------------------------- processNetworkRequest on every time
\* One request has been initiated and its finished event has passed the gate;
\* the descriptor's time is any integer of the range, or is missing.
MaxTime == 20
DescriptorTimes == -MaxTime..MaxTime

TimedRequest == [requestId |-> 1, url |-> "/graphql", method |-> "POST",
                 body |-> "{query}"]
TimedDescriptors ==
    {[url |-> "/graphql", method |-> "POST", body |-> "{query}",
      status |-> FinishedStatus, content |-> 1]}
    \cup {[url |-> "/graphql", method |-> "POST", body |-> "{query}",
           time |-> time, status |-> FinishedStatus, content |-> 1] :
              time \in DescriptorTimes}

InitTime ==
    /\ webRequests = handleBeforeRequestUpdater(<<>>, TimedRequest)
    /\ requestCount = 1
    /\ headersTasks = [id \in 1..MaxRequests |-> NoHeadersTask]
    /\ \E details \in TimedDescriptors :
          finishTasks = <<[pc |-> "getContent", details |-> details,
                           webRequests |-> <<>>, after |-> {}, matched |-> 0]>>
    /\ har = [pc |-> "getHAR"]
    /\ clearCount = 0
    /\ lastOp = Other

NextTime ==
    \/ handleRequestFinishedContent
    \/ handleRequestFinishedCommit

SpecTime == InitTime /\ [][NextTime]_vars

\* ------------------------------------------- one request, fairly scheduled
\* One GraphQL request is initiated, its headers event is delivered, then its
\* finished event; the list is cleared and the backfill committed only before
\* the initiation. A handler that is suspended on a settled promise or a
\* callback is resumed by the event loop: weak fairness of the resumptions.
ProtocolBody == "{query}"

SingleBeforeRequest ==
    /\ requestCount = 0
    /\ handleBeforeRequest
    /\ webRequests'[Len(webRequests')].native.webRequest.body = ProtocolBody

SingleRequestFinished ==
    /\ requestCount = 1
    /\ headersTasks[1].pc # "none"
    /\ finishTasks = <<>>
    /\ handleRequestFinished
    /\ finishTasks'[1].details.body = ProtocolBody

SingleHAREntries == requestCount = 0 /\ handleHAREntries
SingleHAREntriesCommit == requestCount = 0 /\ handleHAREntriesCommit
SingleClearWebRequests == requestCount = 0 /\ clearWebRequests

NextSingle ==
    \/ SingleBeforeRequest
    \/ handleBeforeSendHeaders
    \/ handleBeforeSendHeadersResume
    \/ SingleRequestFinished
    \/ handleRequestFinishedContent
    \/ handleRequestFinishedCommit
    \/ SingleHAREntries
    \/ handleHAREntriesContent
    \/ SingleHAREntriesCommit
    \/ SingleClearWebRequests

SpecSingle ==
    /\ Init
    /\ [][NextSingle]_vars
    /\ WF_vars(handleBeforeSendHeadersResume)
    /\ WF_vars(handleRequestFinishedContent)
    /\ WF_vars(handleRequestFinishedCommit)

\* ===================================================================== claims
HasRequest(webRequest) == webRequest.request # UndefinedDetail
HasResponse(webRequest) == webRequest.response # UndefinedDetail
IsComplete(webRequest) == HasRequest(webRequest) /\ HasResponse(webRequest)

\* sub is exactly the elements of seq that satisfy P, in the order of seq
IsFilterOf(sub, seq, P(_)) ==
    LET kept == {i \in 1..Len(seq) : P(seq[i])} IN
    /\ Len(sub) = Cardinality(kept)
    /\ \A i \in kept : sub[Cardinality({j \in kept : j <= i})] = seq[i]

\* the kinds of step
ClearStep == clearCount' = clearCount + 1
HarCommitStep == har.pc = "Promise.all" /\ har'.pc = "done"
ResetStep == ClearStep \/ HarCommitStep
ClearAllStep == ClearStep /\ lastOp'.opts.clearAll \in {"true", Undefined}
SelectiveClearStep ==
    /\ ClearStep
    /\ lastOp'.opts.clearAll = "false"
    /\ lastOp'.opts.clearPending \in {"true", Undefined}

C2_CommittedUpdatesReflected ==
    \A id \in 1..MaxRequests :
        headersTasks[id].pc = "committed" /\ Find(webRequests, id) # 0
            => HasRequest(webRequests[Find(webRequests, id)])

C3_NoDoubleMatchInSequence ==
    \A e1, e2 \in 1..Len(finishTasks) :
        /\ finishTasks[e1].pc = "committed"
        /\ finishTasks[e2].pc = "committed"
        /\ e1 \in finishTasks[e2].after
        => finishTasks[e1].matched # finishTasks[e2].matched

\* both events match both records and were bound to the two
C3_Witness ==
    /\ Len(webRequests) = 2
    /\ \E e1, e2 \in 1..Len(finishTasks) :
        /\ finishTasks[e1].pc = "committed" /\ finishTasks[e2].pc = "committed"
        /\ e1 \in finishTasks[e2].after
        /\ \A e \in {e1, e2}, i \in 1..2 :
              matchWebAndNetworkRequest(finishTasks[e].details,
                                        webRequests[i].native.webRequest, "none")
        /\ finishTasks[e1].matched # finishTasks[e2].matched
        /\ HasResponse(webRequests[1]) /\ HasResponse(webRequests[2])

\* C4: no step other than a clear or the backfill commit changes a response
\* detail that is present: a finished event never attaches its response to a
\* record that already has one.
C4_NeverRematched ==
    [][~ResetStep =>
          \A i \in 1..Len(webRequests) :
              HasResponse(webRequests[i])
                  => /\ i <= Len(webRequests')
                     /\ webRequests'[i].response = webRequests[i].response]_vars

\* C5: the backfill commit leaves exactly the records decoded from the HAR
\* entries that have a getContent function, all of them GraphQL traffic, in
\* the order of the log, each with request and response detail, and none of
\* the records that were in the list before.
C5_BackfillReplaces ==
    [][HarCommitStep =>
          /\ har.entries = SelectSeq(har.log, LAMBDA details : details.hasGetContent)
          /\ Len(webRequests') = Len(har.entries)
          /\ \A i \in 1..Len(har.entries) :
                /\ validateNetworkRequestResult(har.entries[i])
                /\ IsComplete(webRequests'[i])
                /\ webRequests'[i].request.body = parseGraphqlBody(har.entries[i].body).value
                /\ webRequests'[i].response.body = har.entries[i].content
                /\ webRequests'[i].url = har.entries[i].url
                /\ webRequests'[i].status = har.entries[i].status
          /\ Ids(webRequests') \cap Ids(webRequests) = {}]_vars

\* the commit of two historic records has discarded at least one live record
C5_Witness ==
    /\ lastOp.op = "harCommit"
    /\ lastOp.arg >= 1
    /\ Len(webRequests) = 2

\* C6: a clear with clearAll true or absent leaves the list empty whatever
\* clearPending is, and a second such clear leaves it as the first did.
C6_ClearAllEmpties ==
    [][ClearAllStep =>
          /\ webRequests' = <<>>
          /\ clearWebRequestsResult(webRequests', lastOp'.opts) = webRequests']_vars

\* clearAll absent and clearPending false: the default and the precedence
C6_Witness ==
    /\ lastOp.op = "clear"
    /\ lastOp.opts = [clearPending |-> "false", clearAll |-> Undefined]
    /\ lastOp.arg >= 1
    /\ webRequests = <<>>

\* C7 as stated: a clear of the pending records (clearAll false, clearPending
\* true or absent) retains exactly the complete records, in order.
C7_RetainsExactlyComplete ==
    [][SelectiveClearStep => IsFilterOf(webRequests', webRequests, IsComplete)]_vars

\* C7 as amended: it retains exactly the records that have a response detail,
\* in order, whether or not they have a request detail.
C7_RetainsExactlyResponded ==
    [][SelectiveClearStep => IsFilterOf(webRequests', webRequests, HasResponse)]_vars

\* a selective clear has removed a record and kept one that has a response
\* but no request
C7_Witness ==
    /\ lastOp.op = "clear"
    /\ lastOp.opts.clearAll = "false" /\ lastOp.opts.clearPending # "false"
    /\ lastOp.arg >= 1
    /\ \E i \in 1..Len(webRequests) :
          HasResponse(webRequests[i]) /\ ~HasRequest(webRequests[i])

\* C8: no record of the view was made for a request whose body is not
\* GraphQL traffic, and every record of the view has a primary operation.
NotProtocolBodies == {body \in AllBodies : ~validateNetworkRequestResult([body |-> body])}

C8_NonProtocolNeverVisible ==
    \A k \in 1..Len(completeWebRequests) :
        /\ completeWebRequests[k].native.webRequest.body \notin NotProtocolBodies
        /\ completeWebRequests[k].request.primaryOperation # Undefined

\* the three events of a "not json" request have been handled: its headers
\* were rejected, a finished event attached a response, it is not in the view
C8_Witness ==
    \E i \in 1..Len(webRequests) :
        /\ webRequests[i].native.webRequest.body = "not json"
        /\ headersTasks[webRequests[i].id].pc = "rejected"
        /\ HasResponse(webRequests[i])
        /\ \A k \in 1..Len(completeWebRequests) :
              completeWebRequests[k].id # webRequests[i].id

\* C9: a finished event whose validation result is false is screened: its
\* getContent is not called, no match is looked for, nothing is committed.
C9_GateScreensFinished ==
    \A ev \in 1..Len(finishTasks) :
        ~validateNetworkRequestResult(finishTasks[ev].details)
            => finishTasks[ev].pc = "screened"

\* C10: a complete record stays in the list and complete across every step
\* but a clear-all and the backfill commit, and across those it is either
\* removed or still complete.
WholeResetStep == ClearAllStep \/ HarCommitStep

C10_CompletenessMonotonic ==
    [][\A i \in 1..Len(webRequests) :
          IsComplete(webRequests[i]) =>
              /\ \A j \in 1..Len(webRequests') :
                    webRequests'[j].id = webRequests[i].id => IsComplete(webRequests'[j])
              /\ WholeResetStep \/ Find(webRequests', webRequests[i].id) # 0]_vars

\* a finished event has just been merged into a record that was complete
C10_Witness ==
    /\ lastOp.op = "finishedCommit"
    /\ \E i \in 1..Len(webRequests) :
          /\ IsComplete(webRequests[i])
          /\ webRequests[i].id \in 1..MaxRequests
          /\ headersTasks[webRequests[i].id].pc = "committed"
          /\ \E e1, e2 \in 1..Len(finishTasks) :
                /\ e1 # e2
                /\ finishTasks[e1].pc = "committed" /\ finishTasks[e2].pc = "committed"
                /\ finishTasks[e1].matched = webRequests[i].id
                /\ finishTasks[e2].matched = webRequests[i].id

\* the headers and finished handlers that commit or end in this step
HeadersEnding == {id \in 1..MaxRequests :
                     /\ headersTasks[id].pc = "getRequestBody"
                     /\ headersTasks'[id].pc # "getRequestBody"}
FinishedEnding == {ev \in 1..Len(finishTasks) :
                      /\ finishTasks[ev].pc = "matching"
                      /\ finishTasks'[ev].pc # "matching"}
UpdateStep == HeadersEnding # {} \/ FinishedEnding # {}
UpdateTargets ==
    {id \in HeadersEnding : headersTasks'[id].pc = "committed"}
    \cup {finishTasks'[ev].matched : ev \in {e \in FinishedEnding :
                                               finishTasks'[e].pc = "committed"}}
CommittedOn(id) == {ev \in 1..Len(finishTasks) :
                       /\ finishTasks[ev].pc = "committed"
                       /\ finishTasks[ev].matched = id}

\* C11: a record that a headers update and a finished update have both been
\* committed on, in either order, carries the request detail built from its
\* own body and the status, url, time, method and response of a finished
\* event committed on it.
C11_BothUpdatesReflected ==
    \A i \in 1..Len(webRequests) :
        LET webRequest == webRequests[i] IN
        /\ webRequest.id \in 1..MaxRequests
        /\ headersTasks[webRequest.id].pc = "committed"
        /\ CommittedOn(webRequest.id) # {}
        => /\ webRequest.request # UndefinedDetail
           /\ webRequest.request =
                  handleBeforeSendHeadersRequest(webRequest.native.webRequest.body)
           /\ \E ev \in CommittedOn(webRequest.id) :
                 LET details == finishTasks[ev].details IN
                 /\ webRequest.response = [body |-> details.content]
                 /\ webRequest.status = details.status
                 /\ webRequest.url = details.url
                 /\ webRequest.method = details.method
                 /\ webRequest.time = processNetworkRequestTime(details)

\* the headers handler was suspended when the finished update was committed
\* on its record, and has committed after it
C11_Witness ==
    /\ lastOp.op = "headersCommit"
    /\ CommittedOn(lastOp.arg) # {}
    /\ Find(webRequests, lastOp.arg) # 0
    /\ IsComplete(webRequests[Find(webRequests, lastOp.arg)])

\* C12: when no record of the list the callback read is without a response
\* and matches the finished request, the end of the handler leaves the list
\* as it was and commits nothing.
NoEligibleMatch(snapshot, details) ==
    \A i \in 1..Len(snapshot) :
        \/ snapshot[i].response # UndefinedDetail
        \/ ~matchWebAndNetworkRequest(details, snapshot[i].native.webRequest, "none")

C12_NoMatchNoChange ==
    [][\A ev \in FinishedEnding :
          NoEligibleMatch(finishTasks[ev].webRequests, finishTasks[ev].details)
              => /\ webRequests' = webRequests
                 /\ finishTasks'[ev].pc = "dropped"]_vars

\* a finished event has been dropped while a record without a response, which
\* it does not match, is in the list
C12_Witness ==
    /\ lastOp.op = "finishedDropped"
    /\ \E i \in 1..Len(webRequests) :
          /\ ~HasResponse(webRequests[i])
          /\ ~matchWebAndNetworkRequest(finishTasks[lastOp.arg].details,
                                        webRequests[i].native.webRequest, "none")

\* C13: a headers event whose id no record has, or whose record already has
\* a response, leaves the list unchanged and its handler returns without
\* fetching the body; a handler that has returned commits nothing later.
C13_HeadersIgnored ==
    [][\A id \in 1..MaxRequests :
          /\ /\ headersTasks[id].pc = "none"
             /\ headersTasks'[id].pc # "none"
             /\ \/ id \notin Ids(webRequests)
                \/ HasResponse(webRequests[Find(webRequests, id)])
             => /\ webRequests' = webRequests
                /\ headersTasks'[id].pc = "returned"
          /\ headersTasks[id].pc = "returned" => headersTasks'[id].pc = "returned"]_vars

\* the handler of a record that already had a response has returned, and the
\* record has no request detail
C13_Witness ==
    \E i \in 1..Len(webRequests) :
        /\ webRequests[i].id \in 1..MaxRequests
        /\ headersTasks[webRequests[i].id].pc = "returned"
        /\ HasResponse(webRequests[i])
        /\ ~HasRequest(webRequests[i])

\* C14: for every list and finished request the Matcher was called with, the
\* result is the first record of the list, in list order, that has no
\* response and matches; it is undefined when there is none.
MatcherHits(snapshot, details) ==
    {i \in 1..Len(snapshot) :
        /\ snapshot[i].response = UndefinedDetail
        /\ matchWebAndNetworkRequest(details, snapshot[i].native.webRequest, "none")}

C14_MatcherPicksFirstEligible ==
    \A ev \in 1..Len(finishTasks) :
        finishTasks[ev].pc = "matching" =>
            LET snapshot == finishTasks[ev].webRequests
                details == finishTasks[ev].details
                hits == MatcherHits(snapshot, details)
                match == findMatchingWebRequest(snapshot, details)
            IN IF hits = {} THEN match = 0
               ELSE \E i \in hits :
                       /\ \A j \in hits : i <= j
                       /\ match = snapshot[i].id
                       /\ ~HasResponse(snapshot[i])

\* the Matcher was called with a list in which two records are eligible and
\* match
C14_Witness ==
    \E ev \in 1..Len(finishTasks) :
        /\ finishTasks[ev].pc = "matching"
        /\ Cardinality(MatcherHits(finishTasks[ev].webRequests,
                                   finishTasks[ev].details)) = 2

\* C15: once every getContent callback of the backfill has run, no promise of
\* an entry is left unresolved, so that Promise.all settles and the records
\* of the decodable entries are committed.
C15_UndecodableEntryDoesNotBlock ==
    har.pc = "Promise.all" =>
        \A i \in 1..Len(har.entries) : har.entriesWithContent[i].state # "pending"

\* C16: an initiation event appends one skeleton record with the id of the
\* event, status -1, time 0 and no detail, and leaves the records that were
\* in the list as they were, in the same order.
C16_InitiationAppendsSkeleton ==
    [][requestCount' = requestCount + 1 =>
          /\ Len(webRequests') = Len(webRequests) + 1
          /\ SubSeq(webRequests', 1, Len(webRequests)) = webRequests
          /\ LET last == webRequests'[Len(webRequests')] IN
             /\ last.id = requestCount'
             /\ last.status = -1
             /\ last.time = 0
             /\ last.request = UndefinedDetail
             /\ last.response = UndefinedDetail]_vars

\* the second request was appended after a record that is not a skeleton
C16_Witness ==
    /\ Len(webRequests) = 2
    /\ webRequests[1].id < 0
    /\ IsComplete(webRequests[1])
    /\ webRequests[2].id = requestCount
    /\ webRequests[2].status = -1
    /\ ~HasRequest(webRequests[2]) /\ ~HasResponse(webRequests[2])

\* C17: across every step but an initiation, a clear and the backfill commit
\* every record keeps its place and its id, and only records whose id is the
\* id a committing headers or finished update targets are changed.
C17_IdStable ==
    [][~ResetStep /\ requestCount' = requestCount =>
          \A i \in 1..Len(webRequests) :
              /\ i <= Len(webRequests')
              /\ webRequests'[i].id = webRequests[i].id
              /\ webRequests'[i] # webRequests[i]
                     => webRequests[i].id \in UpdateTargets]_vars

\* a finished update has been applied to one of two records
C17_Witness ==
    /\ lastOp.op = "finishedCommit"
    /\ Len(webRequests) = 2
    /\ webRequests[1].id = 1 /\ webRequests[2].id = 2
    /\ \E i, j \in 1..2 :
          /\ webRequests[i].id = finishTasks[lastOp.arg].matched
          /\ HasResponse(webRequests[i])
          /\ i # j /\ ~HasResponse(webRequests[j])

\* C18: after a finished event is merged into a record, the time of the
\* record is 0 when the descriptor's time is missing or negative and the
\* descriptor's time otherwise, so that it is never negative.
C18_ElapsedTimeNeverNegative ==
    \A ev \in 1..Len(finishTasks) :
        /\ finishTasks[ev].pc = "committed"
        /\ Find(webRequests, finishTasks[ev].matched) # 0
        => LET details == finishTasks[ev].details
               webRequest == webRequests[Find(webRequests, finishTasks[ev].matched)]
           IN /\ webRequest.time >= 0
              /\ webRequest.time =
                     IF "time" \notin DOMAIN details THEN 0
                     ELSE IF details.time < 0 THEN 0
                     ELSE details.time

\* C19: the end of a headers or finished handler leaves the length of the
\* list and the sequence of the ids as they were, and leaves the whole list
\* as it was when no record has the id it targets.
C19_UpdatesKeepShape ==
    [][UpdateStep =>
          /\ Len(webRequests') = Len(webRequests)
          /\ \A i \in 1..Len(webRequests) : webRequests'[i].id = webRequests[i].id
          /\ UpdateTargets \cap Ids(webRequests) = {} => webRequests' = webRequests]_vars

\* a headers handler has committed after its record was removed by a clear or
\* by the backfill, and the record is not in the list
C19_Witness ==
    /\ lastOp.op = "headersCommit"
    /\ lastOp.arg \notin Ids(webRequests)
    /\ headersTasks[lastOp.arg].pc = "committed"

\* C20: when the finished event of the one GraphQL request has been
\* delivered after its initiation and its headers event, with no clear and
\* no backfill commit since the initiation, the record of the request is
\* eventually in the exposed view, whichever of the headers handler and the
\* finished handler resumes first.
InView(id) ==
    \E i \in 1..Len(completeWebRequests) : completeWebRequests[i].id = id

====
